---- MODULE Spec2Model ----
(***************************************************************************)
(* The corpus extraction, aggregation and reconciliation pipeline of       *)
(* src/src/processor.py and src/src/utils.py as a state machine.           *)
(*                                                                         *)
(* Text is a sequence of one-character strings, so that strip, split,      *)
(* startswith, endswith and the substring test are computed, not assumed.  *)
(* File names, directory names and column names are such sequences too.    *)
(***************************************************************************)
EXTENDS Integers, Sequences, FiniteSets, TLC

(***************************************************************************)
(* Bounds of the model.                                                    *)
(***************************************************************************)
\* process_corpora runs performed on one raw root
MaxRuns == 2
\* write failures (create_jsonl / save_to_json raising inside their try)
MaxFaults == 1
\* verify_processed_corpora passes performed on one raw root
MaxVerifies == 1

(***************************************************************************)
(* Characters and Python's str methods.                                    *)
(***************************************************************************)
TAB == "\t"
QUOTE == "\""

\* str.isspace of one character
IsSpace(c) == c \in {" ", TAB}

\* re: [A-Za-z0-9]
IsAlnum(c) ==
    c \in {"a","b","c","d","e","f","g","h","i","j","k","l","m","n","o","p","q",
           "r","s","t","u","v","w","x","y","z","A","B","C","D","E","F","G","H",
           "I","J","K","L","M","N","O","P","Q","R","S","T","U","V","W","X","Y",
           "Z","0","1","2","3","4","5","6","7","8","9"}

IsDigit(c) == c \in {"0","1","2","3","4","5","6","7","8","9"}

\* the punctuation the tokenizer splits off and flags (token.is_punct)
IsPunct(c) == c \in {".", ",", ":", "#", "|", "+", "_"}

RECURSIVE LStrip(_)
LStrip(s) ==
    IF s = <<>> THEN <<>>
    ELSE IF IsSpace(Head(s)) THEN LStrip(Tail(s)) ELSE s

RECURSIVE RStrip(_)
RStrip(s) ==
    IF s = <<>> THEN <<>>
    ELSE IF IsSpace(s[Len(s)]) THEN RStrip(SubSeq(s, 1, Len(s) - 1)) ELSE s

\* str.strip()
Strip(s) == RStrip(LStrip(s))

\* str.startswith(p)
StartsWith(s, p) == Len(p) <= Len(s) /\ SubSeq(s, 1, Len(p)) = p

\* str.endswith(p)
EndsWith(s, p) == Len(p) <= Len(s) /\ SubSeq(s, Len(s) - Len(p) + 1, Len(s)) = p

\* p in s (substring test)
Contains(s, p) == \E i \in 1..(Len(s) - Len(p) + 1) : SubSeq(s, i, i + Len(p) - 1) = p

\* str.split(sep), sep non-empty: the pieces between the occurrences of sep
RECURSIVE SplitAcc(_, _, _)
SplitAcc(s, sep, cur) ==
    IF s = <<>> THEN <<cur>>
    ELSE IF StartsWith(s, sep)
         THEN <<cur>> \o SplitAcc(SubSeq(s, Len(sep) + 1, Len(s)), sep, <<>>)
         ELSE SplitAcc(Tail(s), sep, Append(cur, Head(s)))

Split(s, sep) == SplitAcc(s, sep, <<>>)

\* str.split(): the maximal runs of non-whitespace characters
RECURSIVE SplitWsAcc(_, _)
SplitWsAcc(s, cur) ==
    IF s = <<>> THEN (IF cur = <<>> THEN <<>> ELSE <<cur>>)
    ELSE IF IsSpace(Head(s))
         THEN (IF cur = <<>> THEN <<>> ELSE <<cur>>) \o SplitWsAcc(Tail(s), <<>>)
         ELSE SplitWsAcc(Tail(s), Append(cur, Head(s)))

SplitWs(s) == SplitWsAcc(s, <<>>)

\* str.replace(c, '') for one character c
RECURSIVE RemoveChar(_, _)
RemoveChar(s, c) ==
    IF s = <<>> THEN <<>>
    ELSE IF Head(s) = c THEN RemoveChar(Tail(s), c)
         ELSE <<Head(s)>> \o RemoveChar(Tail(s), c)

\* re.sub(r'\t+', '\t', s)
RECURSIVE CollapseTabs(_)
CollapseTabs(s) ==
    IF Len(s) < 2 THEN s
    ELSE IF s[1] = TAB /\ s[2] = TAB THEN CollapseTabs(Tail(s))
         ELSE <<Head(s)>> \o CollapseTabs(Tail(s))

(***************************************************************************)
(* The string literals of the program.                                     *)
(***************************************************************************)
s_jojajovai == <<"j", "o", "j", "a", "j", "o", "v", "a", "i">>
s_culturax == <<"c", "u", "l", "t", "u", "r", "a", "x">>
s_joemo == <<"j", "o", "e", "m", "o">>
s_joff == <<"j", "o", "f", "f", "+">>
s_jofun == <<"j", "o", "f", "u", "n">>
s_josa == <<"j", "o", "s", "a">>
s_gua_spa == <<"g", "u", "a", "_", "s", "p", "a">>
s_grammar == <<"g", "r", "a", "m", "m", "a", "r">>
s_americasnlp2022 == <<"a", "m", "e", "r", "i", "c", "a", "s", "n", "l", "p", "2", "0", "2", "2">>
s_americasnli == <<"a", "m", "e", "r", "i", "c", "a", "s", "n", "l", "i">>
s_bible == <<"b", "i", "b", "l", "e">>
s_ancora == <<"a", "n", "c", "o", "r", "a">>
s_americasnlp2024 == <<"a", "m", "e", "r", "i", "c", "a", "s", "n", "l", "p", "2", "0", "2", "4">>
s_tatoeba == <<"t", "a", "t", "o", "e", "b", "a">>
s_belele == <<"b", "e", "l", "e", "l", "e">>
s_gn == <<"g", "n">>
s_source == <<"s", "o", "u", "r", "c", "e">>
s_text == <<"t", "e", "x", "t">>
s_url == <<"u", "r", "l">>
s_source_processed == <<"s", "o", "u", "r", "c", "e", "_", "p", "r", "o", "c", "e", "s", "s", "e", "d">>
s_hypothesis == <<"h", "y", "p", "o", "t", "h", "e", "s", "i", "s">>
s_col1 == <<"c", "o", "l", "1">>
s_col2 == <<"c", "o", "l", "2">>
s_col3 == <<"c", "o", "l", "3">>
s_premise == <<"p", "r", "e", "m", "i", "s", "e">>
s_unknown == <<"u", "n", "k", "n", "o", "w", "n">>
s_ext_csv == <<".", "c", "s", "v">>
s_ext_gn == <<".", "g", "n">>
s_ext_txt == <<".", "t", "x", "t">>
s_ext_tsv == <<"t", "s", "v">>
s_ext_dot_tsv == <<".", "t", "s", "v">>
s_ext_xml == <<"x", "m", "l">>
s_ext_jsonl == <<"j", "s", "o", "n", "l">>
s_ext_json == <<"j", "s", "o", "n">>
s_sfx_jsonl == <<".", "j", "s", "o", "n", "l">>
s_sfx_report == <<"_", "r", "e", "p", "o", "r", "t", ".", "j", "s", "o", "n">>
s_sep_bars == <<" ", "|", "|", "|", " ">>
s_sep_colon == <<":", " ">>
s_sep_dotcomma == <<".", ",">>
s_prefix_hash == <<"#">>
\* GN_CODE, and the defaults lang_code='grn', lang_script='Latn'
GN_CODE == "grn"
Latn == "Latn"

(***************************************************************************)
(* Python values that are not always strings: a csv cell, a JSON value, an *)
(* element's text, a source/url.  kind is "str", "num" or "none".          *)
(***************************************************************************)
StrV(s) == [kind |-> "str", val |-> s]
NumV(s) == [kind |-> "num", val |-> s]
NoneV == [kind |-> "none", val |-> <<>>]
\* isinstance(v, str)
IsStr(v) == v.kind = "str"

(***************************************************************************)
(* The two services the annotator consumes.  Both live outside this        *)
(* repository; each is a fixed function of the text.                       *)
(***************************************************************************)
\* the tokens of one whitespace-free chunk: each punctuation character is a
\* token of its own (is_punct), each maximal run of other characters one token
RECURSIVE ChunkTokens(_, _)
ChunkTokens(w, cur) ==
    IF w = <<>> THEN (IF cur = <<>> THEN <<>> ELSE <<[text |-> cur, is_punct |-> FALSE]>>)
    ELSE IF IsPunct(Head(w))
         THEN (IF cur = <<>> THEN <<>> ELSE <<[text |-> cur, is_punct |-> FALSE]>>)
              \o <<[text |-> <<Head(w)>>, is_punct |-> TRUE]>>
              \o ChunkTokens(Tail(w), <<>>)
         ELSE ChunkTokens(Tail(w), Append(cur, Head(w)))

RECURSIVE TokensOf(_)
TokensOf(chunks) ==
    IF chunks = <<>> THEN <<>>
    ELSE ChunkTokens(Head(chunks), <<>>) \o TokensOf(Tail(chunks))

\* word_seg(text): the tokenizer
word_seg(text) == TokensOf(SplitWs(text))

\* identifier.identify_languages(text, k=1, raw_output=False): a text with an
\* "x" is taken for Spanish, any other text for Guarani; scores are in tenths
identify_languages(text) ==
    IF Contains(text, <<"x">>)
    THEN [lang |-> "spa", score |-> 7, source |-> <<"g", "l">>, voting |-> <<"m", "a", "j">>]
    ELSE [lang |-> GN_CODE, score |-> 9, source |-> <<"g", "l">>, voting |-> <<"m", "a", "j">>]

(***************************************************************************)
(* utils.py: the counts and the language identification.                   *)
(***************************************************************************)
word_count_split(text) == Len(SplitWs(text))

\* a word_count_spacy that leaves the punctuation out when include_punct is set
CountTokens_flag_inverted(toks, include_punct) ==
    Cardinality({i \in 1..Len(toks) : ~include_punct \/ ~toks[i].is_punct})

\* len(words) of word_count_spacy for the tokens of the text
CountTokens(toks, include_punct) ==
    Cardinality({i \in 1..Len(toks) : include_punct \/ ~toks[i].is_punct})

word_count_spacy(text, include_punct) == CountTokens(word_seg(text), include_punct)

\* an identify_language that returns the dict whatever the label
GuaraniOrNone_any_label(result) ==
    [some |-> TRUE, lang |-> result.lang, score |-> result.score,
     source_score |-> StrV(result.source), voting_method |-> StrV(result.voting)]

\* what identify_language returns for the identifier's result: None, or the
\* dict of a Guarani identification
GuaraniOrNone(result) ==
    IF result.lang = GN_CODE
    THEN [some |-> TRUE, lang |-> result.lang, score |-> result.score,
          source_score |-> StrV(result.source), voting_method |-> StrV(result.voting)]
    ELSE [some |-> FALSE, lang |-> "", score |-> 0,
          source_score |-> NoneV, voting_method |-> NoneV]

identify_language(text) == GuaraniOrNone(identify_languages(text))

(***************************************************************************)
(* processor.py: the annotated record and the running statistics.          *)
(***************************************************************************)
\* the text_dict process_text builds once ident_result is known
TextDict(text, corpus_name, corpus_file_name, source, url, lang_code, lang_script, ident_result) ==
    [text |-> text,
     corpus |-> corpus_name,
     corpus_file |-> corpus_file_name,
     source |-> source,
     url |-> url,
     language |-> IF ident_result.some THEN ident_result.lang ELSE lang_code,
     language_score |-> IF ident_result.some THEN ident_result.score ELSE 0,
     language_script |-> lang_script,
     language_score_source |->
         IF ident_result.some THEN ident_result.source_score ELSE NoneV,
     language_identification_method |->
         IF ident_result.some THEN ident_result.voting_method ELSE NoneV,
     num_words_split |-> word_count_split(text),
     num_words_punct_spacy |-> word_count_spacy(text, TRUE),
     num_words_no_punct_spacy |-> word_count_spacy(text, FALSE),
     num_chars |-> Len(text)]

process_text(text, corpus_name, corpus_file_name, source, url, lang_code, lang_script) ==
    TextDict(text, corpus_name, corpus_file_name, source, url, lang_code, lang_script,
             identify_language(text))

get_report_dict ==
    [num_docs |-> 0,
     num_words_split |-> 0,
     num_words_punct_spacy |-> 0,
     num_words_no_punct_spacy |-> 0,
     num_chars |-> 0,
     sum_lang_score |-> 0,
     avg_words_split |-> 0,
     avg_words_punct_spacy |-> 0,
     avg_words_no_punct_spacy |-> 0,
     avg_chars |-> 0,
     avg_language_score |-> 0]

\* the six increments every extractor makes after data.append(text_dict)
CountDoc(report_dict, text_dict) ==
    [report_dict EXCEPT
        !.num_docs = @ + 1,
        !.num_words_split = @ + text_dict.num_words_split,
        !.num_words_punct_spacy = @ + text_dict.num_words_punct_spacy,
        !.num_words_no_punct_spacy = @ + text_dict.num_words_no_punct_spacy,
        !.num_chars = @ + Len(text_dict.text),
        !.sum_lang_score = @ + text_dict.language_score]

\* Python's a / n on the report's sums, kept to two decimal places
Quotient(a, n) == (a * 100) \div n

\* save_report's first half: the sums of the existing report added
Summed(report_dict, existing) ==
    IF existing = <<>> THEN report_dict
    ELSE [report_dict EXCEPT
            !.num_docs = @ + existing[1].num_docs,
            !.num_words_split = @ + existing[1].num_words_split,
            !.num_words_punct_spacy = @ + existing[1].num_words_punct_spacy,
            !.num_words_no_punct_spacy = @ + existing[1].num_words_no_punct_spacy,
            !.num_chars = @ + existing[1].num_chars,
            !.sum_lang_score = @ + existing[1].sum_lang_score]

\* save_report's second half: the averages recomputed when num_docs > 0
WithAverages(summed) ==
    IF summed.num_docs > 0
    THEN [summed EXCEPT
            !.avg_words_split = Quotient(summed.num_words_split, summed.num_docs),
            !.avg_words_punct_spacy = Quotient(summed.num_words_punct_spacy, summed.num_docs),
            !.avg_words_no_punct_spacy =
                Quotient(summed.num_words_no_punct_spacy, summed.num_docs),
            !.avg_chars = Quotient(summed.num_chars, summed.num_docs),
            !.avg_language_score = Quotient(summed.sum_lang_score, summed.num_docs)]
    ELSE summed

\* a save_report that carries the averages over additively: those of the
\* existing report plus those of the fresh counters
save_report_carrying_averages(report_dict, existing) ==
    [Summed(report_dict, existing) EXCEPT
        !.avg_words_split =
            (IF existing = <<>> THEN 0 ELSE existing[1].avg_words_split)
            + (IF report_dict.num_docs = 0 THEN 0
               ELSE Quotient(report_dict.num_words_split, report_dict.num_docs)),
        !.avg_words_punct_spacy =
            (IF existing = <<>> THEN 0 ELSE existing[1].avg_words_punct_spacy)
            + (IF report_dict.num_docs = 0 THEN 0
               ELSE Quotient(report_dict.num_words_punct_spacy, report_dict.num_docs)),
        !.avg_words_no_punct_spacy =
            (IF existing = <<>> THEN 0 ELSE existing[1].avg_words_no_punct_spacy)
            + (IF report_dict.num_docs = 0 THEN 0
               ELSE Quotient(report_dict.num_words_no_punct_spacy, report_dict.num_docs)),
        !.avg_chars =
            (IF existing = <<>> THEN 0 ELSE existing[1].avg_chars)
            + (IF report_dict.num_docs = 0 THEN 0
               ELSE Quotient(report_dict.num_chars, report_dict.num_docs)),
        !.avg_language_score =
            (IF existing = <<>> THEN 0 ELSE existing[1].avg_language_score)
            + (IF report_dict.num_docs = 0 THEN 0
               ELSE Quotient(report_dict.sum_lang_score, report_dict.num_docs))]

\* save_report up to the write: the dictionary handed to save_to_json.
\* existing is <<>> (no report file) or <<e_report_dict>>.
save_report(report_dict, existing) == WithAverages(Summed(report_dict, existing))

(***************************************************************************)
(* A raw file: its name and what the readers get from it.                  *)
(*   lines  the text lines (without the line break) of a text, csv or tsv  *)
(*          file: read_txt_corpus, pandas.read_csv, sanitize_tsv_corpus    *)
(*   objs   what json.loads gives for each line of a line-JSON file: the   *)
(*          values of the two keys ("missing" when the key is absent)      *)
(*   elems  the text of each <s> element of a markup file (NoneV for an    *)
(*          element without text)                                          *)
(*   ok     FALSE when the file does not parse (json.loads / ET.parse)     *)
(***************************************************************************)
MissingV == [kind |-> "missing", val |-> <<>>]

\* the outcome of an extraction: err is "" or the exception raised
Outcome(err, data, report_dict) == [err |-> err, data |-> data, report_dict |-> report_dict]

\* separator=None
NoSeparator == [str |-> <<>>, idx |-> 0]

\* what one pass of an extraction loop comes to before process_text is called:
\* the item is passed over (skip), an exception is raised (err), or text,
\* source and url are handed to process_text
Item(skip, err, text, source, url) ==
    [skip |-> skip, err |-> err, text |-> text, source |-> source, url |-> url]

\* data.append(text_dict) and the six increments of report_dict
Collected(o, text_dict) ==
    Outcome("", Append(o.data, text_dict), CountDoc(o.report_dict, text_dict))

\* an extraction loop over its items, from the outcome o reached so far
RECURSIVE Collect(_, _, _, _, _, _)
Collect(items, o, corpus_name, corpus_file_name, lang_code, lang_script) ==
    IF items = <<>> THEN o
    ELSE IF Head(items).err # "" THEN Outcome(Head(items).err, o.data, o.report_dict)
    ELSE IF Head(items).skip
    THEN Collect(Tail(items), o, corpus_name, corpus_file_name, lang_code, lang_script)
    ELSE Collect(Tail(items),
                 Collected(o, process_text(Head(items).text, corpus_name, corpus_file_name,
                                           Head(items).source, Head(items).url,
                                           lang_code, lang_script)),
                 corpus_name, corpus_file_name, lang_code, lang_script)

\* text.split(separator['str'])[separator['idx']]
Piece(pieces, idx) ==
    IF idx + 1 > Len(pieces) THEN Item(FALSE, "IndexError", <<>>, NoneV, NoneV)
    ELSE Item(FALSE, "", pieces[idx + 1], StrV(s_unknown), StrV(s_unknown))

\* the body of process_text_collection's loop after text = text.strip()
StrippedItem(stripped, line_prefix, separator) ==
    IF stripped = <<>> THEN Item(TRUE, "", <<>>, NoneV, NoneV)
    ELSE IF line_prefix # <<>> /\ ~StartsWith(stripped, line_prefix)
    THEN Item(TRUE, "", <<>>, NoneV, NoneV)
    ELSE IF separator.str # <<>> THEN Piece(Split(stripped, separator.str), separator.idx)
    ELSE Item(FALSE, "", stripped, StrV(s_unknown), StrV(s_unknown))

\* the body of process_text_collection's loop: text.strip() of a value that is
\* no string raises
CollectionItem(text, line_prefix, separator) ==
    IF ~IsStr(text) THEN Item(FALSE, "AttributeError", <<>>, NoneV, NoneV)
    ELSE StrippedItem(Strip(text.val), line_prefix, separator)

process_text_collection(content_collection, data, report_dict, corpus_name, corpus_file_name, lang_code, lang_script, line_prefix, separator) ==
    Collect([i \in 1..Len(content_collection) |->
                CollectionItem(content_collection[i], line_prefix, separator)],
            Outcome("", data, report_dict), corpus_name, corpus_file_name,
            lang_code, lang_script)

\* read_txt_corpus: f.readlines()
read_txt_corpus(file) == [i \in 1..Len(file.lines) |-> StrV(file.lines[i])]

process_txt_corpus(file, corpus_name, separator, line_prefix) ==
    process_text_collection(read_txt_corpus(file), <<>>, get_report_dict, corpus_name,
                            file.name, GN_CODE, Latn, line_prefix, separator)

\* read_xml_corpus: the text of every <s> element; ET.parse raises on a
\* malformed document
read_xml_corpus(file) == [err |-> IF file.ok THEN "" ELSE "ParseError", text_list |-> file.elems]

process_xml_corpus(file, corpus_name) ==
    IF read_xml_corpus(file).err # ""
    THEN Outcome(read_xml_corpus(file).err, <<>>, get_report_dict)
    ELSE process_text_collection(read_xml_corpus(file).text_list, <<>>, get_report_dict,
                                 corpus_name, file.name, GN_CODE, Latn, <<>>, NoSeparator)

\* read_jsonl_corpus: json.loads of every line
read_jsonl_corpus(file) == [err |-> IF file.ok THEN "" ELSE "JSONDecodeError", f_data |-> file.objs]

\* the inner loop of process_jsonl_corpus for one value
JsonlField(text) ==
    IF IsStr(text) THEN Item(FALSE, "", text.val, StrV(s_unknown), StrV(s_unknown))
    ELSE Item(TRUE, "", <<>>, NoneV, NoneV)

\* a JsonlLine whose list holds line['flores_passage'] only
JsonlLine_passage_only(line) ==
    IF line.flores_passage = MissingV
    THEN <<Item(FALSE, "KeyError", <<>>, NoneV, NoneV)>>
    ELSE <<JsonlField(line.flores_passage)>>

\* [line['flores_passage'], line['question']] is built before the inner loop
JsonlLine(line) ==
    IF line.flores_passage = MissingV \/ line.question = MissingV
    THEN <<Item(FALSE, "KeyError", <<>>, NoneV, NoneV)>>
    ELSE <<JsonlField(line.flores_passage), JsonlField(line.question)>>

\* the outer loop of process_jsonl_corpus
RECURSIVE JsonlLines(_)
JsonlLines(f_data) ==
    IF f_data = <<>> THEN <<>> ELSE JsonlLine(Head(f_data)) \o JsonlLines(Tail(f_data))

process_jsonl_corpus(file, corpus_name) ==
    IF read_jsonl_corpus(file).err # ""
    THEN Outcome(read_jsonl_corpus(file).err, <<>>, get_report_dict)
    ELSE Collect(JsonlLines(read_jsonl_corpus(file).f_data),
                 Outcome("", <<>>, get_report_dict), corpus_name, file.name, GN_CODE, Latn)

(***************************************************************************)
(* Tabular files.  pandas.read_csv is modelled on files without quoting:   *)
(* empty lines are skipped; without names the first line is the header;    *)
(* a line with more fields than columns is a bad line (on_bad_lines=       *)
(* 'skip'); a missing or empty field is NaN; a column whose cells are all  *)
(* digits is numeric, every other column holds strings.                    *)
(***************************************************************************)
NonBlank(line) == line # <<>>

\* a parsed cell before type inference: the field, or <<>> for NaN
CellAt(fields, j) == IF j <= Len(fields) THEN fields[j] ELSE <<>>

IsNumber(field) == field # <<>> /\ \A i \in 1..Len(field) : IsDigit(field[i])

\* the columns pandas infers to be numeric: some cell, and every cell a number
NumericColumns(columns, good) ==
    {j \in 1..Len(columns) :
        /\ \E i \in 1..Len(good) : CellAt(good[i], j) # <<>>
        /\ \A i \in 1..Len(good) : CellAt(good[i], j) = <<>> \/ IsNumber(CellAt(good[i], j))}

\* a cell of the frame: a number in a numeric column, else a string
Cell(fields, j, numeric) == IF j \in numeric THEN NumV(fields[j]) ELSE StrV(fields[j])

\* one row of the frame: a function from column name to cell
RowOf(fields, columns, numeric) ==
    [c \in {columns[j] : j \in 1..Len(columns)} |->
        Cell(fields, CHOOSE j \in 1..Len(columns) : columns[j] = c, numeric)]

\* on_bad_lines='skip': the lines with no more fields than there are columns
RECURSIVE WithinColumns(_, _)
WithinColumns(parsed, n) ==
    IF parsed = <<>> THEN <<>>
    ELSE (IF Len(Head(parsed)) <= n THEN <<Head(parsed)>> ELSE <<>>)
         \o WithinColumns(Tail(parsed), n)

\* df.dropna(): the rows without NaN
RECURSIVE Complete(_, _)
Complete(good, n) ==
    IF good = <<>> THEN <<>>
    ELSE (IF \A j \in 1..n : CellAt(Head(good), j) # <<>> THEN <<Head(good)>> ELSE <<>>)
         \o Complete(Tail(good), n)

\* the frame of the rows kept, typed by the columns found numeric
Typed(columns, kept, numeric) ==
    [err |-> "", columns |-> columns,
     rows |-> [i \in 1..Len(kept) |-> RowOf(kept[i], columns, numeric)]]

\* the frame of the lines that are not bad lines
FrameOf(columns, good) ==
    Typed(columns, Complete(good, Len(columns)), NumericColumns(columns, good))

\* pandas.read_csv(on_bad_lines='skip') of the header and the body lines
ParseTable(columns, body, sep) ==
    FrameOf(columns,
            WithinColumns([i \in 1..Len(body) |-> Split(body[i], <<sep>>)], Len(columns)))

\* pandas.read_csv of the lines that are not empty
TableOf(lines, sep, names) ==
    IF lines = <<>> THEN [err |-> "EmptyDataError", columns |-> <<>>, rows |-> <<>>]
    ELSE IF names = <<>> THEN ParseTable(Split(Head(lines), <<sep>>), Tail(lines), sep)
    ELSE ParseTable(names, lines, sep)

\* read_csv_corpus(file_path, sep, names): err, the columns, and the rows
\* left by dropna.  names = <<>> stands for names=None.
read_csv_corpus(file, sep, names) == TableOf(SelectSeq(file.lines, NonBlank), sep, names)

\* df[col].unique().tolist(): the values in order of first appearance
RECURSIVE Unique(_, _)
Unique(values, seen) ==
    IF values = <<>> THEN <<>>
    ELSE IF Head(values) \in seen THEN Unique(Tail(values), seen)
         ELSE <<Head(values)>> \o Unique(Tail(values), seen \cup {Head(values)})

\* a CsvRow without the isinstance(text, str) test
CsvRow_any_cell(row, text_col_name, source_col_name, url_col_name) ==
    IF text_col_name \notin DOMAIN row THEN Item(FALSE, "KeyError", <<>>, NoneV, NoneV)
    ELSE Item(FALSE, "", row[text_col_name].val,
              IF source_col_name \in DOMAIN row THEN row[source_col_name]
              ELSE StrV(s_unknown),
              IF url_col_name \in DOMAIN row THEN row[url_col_name] ELSE StrV(s_unknown))

\* the body of the loop of process_csv_corpus over df.iterrows().  A column
\* name of <<>> stands for the '' and None the callers pass: no column has it.
CsvRow(row, text_col_name, source_col_name, url_col_name) ==
    IF text_col_name \notin DOMAIN row THEN Item(FALSE, "KeyError", <<>>, NoneV, NoneV)
    ELSE IF ~IsStr(row[text_col_name]) THEN Item(TRUE, "", <<>>, NoneV, NoneV)
    ELSE Item(FALSE, "", row[text_col_name].val,
              IF source_col_name \in DOMAIN row THEN row[source_col_name]
              ELSE StrV(s_unknown),
              IF url_col_name \in DOMAIN row THEN row[url_col_name] ELSE StrV(s_unknown))

\* process_csv_corpus after its loop: the fan-out of americasnli
FanOut(df, rowsDone, corpus_name, corpus_file_name) ==
    IF rowsDone.err # "" \/ corpus_name # s_americasnli THEN rowsDone
    ELSE IF \A j \in 1..Len(df.columns) : df.columns[j] # s_premise
    THEN Outcome("KeyError", rowsDone.data, rowsDone.report_dict)
    ELSE process_text_collection(
             Unique([i \in 1..Len(df.rows) |-> df.rows[i][s_premise]], {}),
             rowsDone.data, rowsDone.report_dict, corpus_name, corpus_file_name,
             GN_CODE, Latn, <<>>, NoSeparator)

\* process_csv_corpus from the frame read to save_processing
CsvFrame(df, corpus_name, corpus_file_name, text_col_name, source_col_name, url_col_name) ==
    IF df.err # "" THEN Outcome(df.err, <<>>, get_report_dict)
    ELSE FanOut(df,
                Collect([i \in 1..Len(df.rows) |->
                            CsvRow(df.rows[i], text_col_name, source_col_name, url_col_name)],
                        Outcome("", <<>>, get_report_dict), corpus_name, corpus_file_name,
                        GN_CODE, Latn),
                corpus_name, corpus_file_name)

process_csv_corpus(file, corpus_name, text_col_name, source_col_name, url_col_name, sep, names) ==
    CsvFrame(read_csv_corpus(file, sep, names), corpus_name, file.name, text_col_name,
             source_col_name, url_col_name)

\* a sanitize_tsv_corpus that leaves the file as it is
sanitize_tsv_corpus_skipped(lines) == lines

\* sanitize_tsv_corpus: the lines written back to the file
sanitize_tsv_corpus(lines) ==
    [i \in 1..Len(lines) |-> CollapseTabs(Strip(RemoveChar(lines[i], QUOTE)))]

(***************************************************************************)
(* The dispatch router: process_corpora's chain on the file name and the   *)
(* prepare_processing_* functions.                                         *)
(***************************************************************************)
\* the branch of process_corpora's if/elif chain a file name takes
Route(filename) ==
    IF EndsWith(filename, s_ext_csv) THEN "csv"
    ELSE IF EndsWith(filename, s_ext_gn) \/ EndsWith(filename, s_ext_txt) THEN "txt"
    ELSE IF EndsWith(filename, s_ext_tsv) THEN "tsv"
    ELSE IF EndsWith(filename, s_ext_xml) THEN "xml"
    ELSE IF EndsWith(filename, s_ext_jsonl) THEN "jsonl"
    ELSE "unsupported"

\* what a prepare_processing_* call leaves: the exception it raised ("" when
\* it reached save_processing), the arguments of save_processing, and the
\* lines of the raw file after the call
Prepared(err, data, report_dict, corpus_name, lines) ==
    [err |-> err, data |-> data, report_dict |-> report_dict,
     corpus_name |-> corpus_name, lines |-> lines]

FromOutcome(o, corpus_name, lines) ==
    Prepared(o.err, o.data, o.report_dict, corpus_name, lines)

prepare_processing_cvs_corpus(corpus_dir_name, file) ==
    IF Contains(corpus_dir_name, s_jojajovai)
    THEN FromOutcome(process_csv_corpus(file, s_jojajovai, s_gn, s_source, <<>>, ",", <<>>),
                     s_jojajovai, file.lines)
    ELSE IF Contains(corpus_dir_name, s_culturax)
    THEN FromOutcome(process_csv_corpus(file, s_culturax, s_text, s_source, s_url, ",", <<>>),
                     s_culturax, file.lines)
    ELSE Prepared("UnknownCorpus", <<>>, get_report_dict, corpus_dir_name, file.lines)

prepare_processing_txt_corpus(corpus_dir_name, file) ==
    FromOutcome(process_txt_corpus(file, corpus_dir_name,
                    IF corpus_dir_name \in {s_joemo, s_joff, s_jofun, s_josa}
                    THEN [str |-> s_sep_bars, idx |-> 0]
                    ELSE IF corpus_dir_name = s_gua_spa THEN [str |-> s_sep_colon, idx |-> 1]
                    ELSE IF corpus_dir_name = s_grammar THEN [str |-> s_sep_dotcomma, idx |-> 1]
                    ELSE NoSeparator,
                    IF corpus_dir_name = s_gua_spa THEN s_prefix_hash ELSE <<>>),
                corpus_dir_name, file.lines)

\* the configured tsv corpora: the text column and the names passed to pandas
TsvRule(corpus_dir_name) ==
    IF corpus_dir_name = s_americasnlp2022
    THEN [known |-> TRUE, text_col_name |-> s_source_processed, names |-> <<>>]
    ELSE IF corpus_dir_name = s_americasnli
    THEN [known |-> TRUE, text_col_name |-> s_hypothesis, names |-> <<>>]
    ELSE IF corpus_dir_name = s_bible
    THEN [known |-> TRUE, text_col_name |-> s_col1, names |-> <<s_col1, s_col2>>]
    ELSE IF corpus_dir_name = s_ancora
    THEN [known |-> TRUE, text_col_name |-> s_col2, names |-> <<s_col1, s_col2>>]
    ELSE IF corpus_dir_name \in {s_americasnlp2024, s_tatoeba}
    THEN [known |-> TRUE, text_col_name |-> s_col3, names |-> <<s_col1, s_col2, s_col3>>]
    ELSE [known |-> FALSE, text_col_name |-> <<>>, names |-> <<>>]

\* prepare_processing_tsv_corpus after sanitize_tsv_corpus(file_path)
TsvSanitized(corpus_dir_name, sanitized, rule) ==
    FromOutcome(process_csv_corpus(sanitized, corpus_dir_name, rule.text_col_name,
                                   <<>>, <<>>, TAB, rule.names),
                corpus_dir_name, sanitized.lines)

prepare_processing_tsv_corpus(corpus_dir_name, file) ==
    IF ~TsvRule(corpus_dir_name).known
    THEN Prepared("UnknownCorpus", <<>>, get_report_dict, corpus_dir_name, file.lines)
    ELSE TsvSanitized(corpus_dir_name,
                      [file EXCEPT !.lines = sanitize_tsv_corpus(file.lines)],
                      TsvRule(corpus_dir_name))

prepare_processing_xml_corpus(corpus_dir_name, file) ==
    FromOutcome(process_xml_corpus(file, corpus_dir_name), corpus_dir_name, file.lines)

prepare_processing_jsonl_corpus(corpus_dir_name, file) ==
    FromOutcome(process_jsonl_corpus(file, corpus_dir_name), corpus_dir_name, file.lines)

\* the call process_corpora makes for a file of a supported extension
Dispatch(corpus_dir_name, file) ==
    CASE Route(file.name) = "csv" -> prepare_processing_cvs_corpus(corpus_dir_name, file)
      [] Route(file.name) = "txt" -> prepare_processing_txt_corpus(corpus_dir_name, file)
      [] Route(file.name) = "tsv" -> prepare_processing_tsv_corpus(corpus_dir_name, file)
      [] Route(file.name) = "xml" -> prepare_processing_xml_corpus(corpus_dir_name, file)
      [] Route(file.name) = "jsonl" -> prepare_processing_jsonl_corpus(corpus_dir_name, file)

(***************************************************************************)
(* The reconciliation counter.                                             *)
(***************************************************************************)
\* re.match(r"^#[A-Za-z0-9]+:", line)
RECURSIVE AlnumsThenColon(_, _)
AlnumsThenColon(s, n) ==
    IF s = <<>> THEN FALSE
    ELSE IF IsAlnum(Head(s)) THEN AlnumsThenColon(Tail(s), n + 1)
    ELSE Head(s) = ":" /\ n > 0

MatchesPattern(line) == line # <<>> /\ Head(line) = "#" /\ AlnumsThenColon(Tail(line), 0)

\* len of a frame, or the exception of the reader
FrameCount(df) == [err |-> df.err, n |-> Len(df.rows)]

\* df.shape[0] + len(df['premise'].unique()) for americasnli
FanOutCount(df) ==
    IF df.err # "" THEN [err |-> df.err, n |-> 0]
    ELSE IF \A j \in 1..Len(df.columns) : df.columns[j] # s_premise
    THEN [err |-> "KeyError", n |-> 0]
    ELSE [err |-> "",
          n |-> Len(df.rows)
                + Len(Unique([i \in 1..Len(df.rows) |-> df.rows[i][s_premise]], {}))]

\* the branch of compute_num_raw_records' if/elif chain a file name takes
CountedAs(filename) ==
    IF EndsWith(filename, s_ext_csv) THEN "csv"
    ELSE IF EndsWith(filename, s_ext_gn) \/ EndsWith(filename, s_ext_txt) THEN "txt"
    ELSE IF EndsWith(filename, s_ext_dot_tsv) THEN "tsv"
    ELSE IF EndsWith(filename, s_ext_xml) THEN "xml"
    ELSE IF EndsWith(filename, s_ext_jsonl) THEN "jsonl"
    ELSE "unsupported"

\* what compute_num_raw_records adds for one file: err and the count
CountFile(corpus_dir_name, file) ==
    IF EndsWith(file.name, s_ext_csv)
    THEN FrameCount(read_csv_corpus(file, ",", <<>>))
    ELSE IF EndsWith(file.name, s_ext_gn) \/ EndsWith(file.name, s_ext_txt)
    THEN IF corpus_dir_name = s_gua_spa
         THEN [err |-> "", n |-> Len(SelectSeq(file.lines, MatchesPattern))]
         ELSE [err |-> "", n |-> Len(file.lines)]
    ELSE IF EndsWith(file.name, s_ext_dot_tsv)
    THEN IF corpus_dir_name = s_americasnli
         THEN FanOutCount(read_csv_corpus(file, TAB, <<>>))
         ELSE FrameCount(read_csv_corpus(file, TAB,
                  IF corpus_dir_name \in {s_americasnlp2024, s_tatoeba}
                  THEN <<s_col1, s_col2, s_col3>>
                  ELSE IF corpus_dir_name \in {s_bible, s_ancora} THEN <<s_col1, s_col2>>
                  ELSE <<>>))
    ELSE IF EndsWith(file.name, s_ext_xml)
    THEN [err |-> read_xml_corpus(file).err, n |-> Len(read_xml_corpus(file).text_list)]
    ELSE IF EndsWith(file.name, s_ext_jsonl)
    THEN [err |-> read_jsonl_corpus(file).err,
          n |-> Len(read_jsonl_corpus(file).f_data)
                * (IF corpus_dir_name = s_belele THEN 2 ELSE 1)]
    ELSE [err |-> "", n |-> 0]

\* num_records += ...: the count so far when the file raised, else the sum
AddCount(c, rest) ==
    IF c.err # "" THEN [err |-> c.err, n |-> 0]
    ELSE [err |-> rest.err, n |-> c.n + rest.n]

\* the inner loop of compute_num_raw_records over the counts of the files
RECURSIVE SumCounts(_)
SumCounts(counts) ==
    IF counts = <<>> THEN [err |-> "", n |-> 0]
    ELSE AddCount(Head(counts), SumCounts(Tail(counts)))

CountFiles(corpus_dir_name, files) ==
    SumCounts([i \in 1..Len(files) |-> CountFile(corpus_dir_name, files[i])])

\* the dictionary corpus -> count, or the first exception raised
RawRecords(raw_corpora, counts) ==
    [err |-> IF \E i \in 1..Len(counts) : counts[i].err # ""
             THEN counts[CHOOSE i \in 1..Len(counts) :
                            /\ counts[i].err # ""
                            /\ \A j \in 1..(i - 1) : counts[j].err = ""].err
             ELSE "",
     raw_records |-> [nm \in {raw_corpora[i].name : i \in 1..Len(raw_corpora)} |->
                        counts[CHOOSE i \in 1..Len(raw_corpora) :
                                   raw_corpora[i].name = nm].n]]

\* compute_num_raw_records: err, and the dictionary corpus -> count
compute_num_raw_records(raw_corpora) ==
    RawRecords(raw_corpora,
               [i \in 1..Len(raw_corpora) |->
                   CountFiles(raw_corpora[i].name, raw_corpora[i].files)])

(***************************************************************************)
(* The raw roots the model runs on: every sequence (a listing order) of up *)
(* to MaxDirs of these corpus directories, no two of one name.             *)
(***************************************************************************)
MaxDirs == 2

File(name, lines, objs, elems, ok) ==
    [name |-> name, lines |-> lines, objs |-> objs, elems |-> elems, ok |-> ok]

\* a.csv:   gn,source / che,w / ha e,w
csvA == File(<<"a">> \o s_ext_csv,
             << s_gn \o <<",">> \o s_source,
                <<"c", "h", "e", ",", "w">>,
                <<"h", "a", " ", "e", ",", "w">> >>,
             <<>>, <<>>, TRUE)
\* d.txt:   #d1: che / (empty) / ko x
txtD == File(<<"d">> \o s_ext_txt,
             << <<"#", "d", "1", ":", " ", "c", "h", "e">>,
                <<>>,
                <<"k", "o", " ", "x">> >>,
             <<>>, <<>>, TRUE)
\* e.txt:   (empty) / a blank
txtE == File(<<"e">> \o s_ext_txt, << <<>>, <<" ">> >>, <<>>, <<>>, TRUE)
\* t.tsv:   premise<TAB>hypothesis / "p"<TAB><TAB>h / p<TAB>i,
tsvT == File(<<"t">> \o s_ext_dot_tsv,
             << s_premise \o <<TAB>> \o s_hypothesis,
                <<QUOTE, "p", QUOTE, TAB, TAB, "h">>,
                <<"p", TAB, "i", ",">> >>,
             <<>>, <<>>, TRUE)
\* b.jsonl: {"flores_passage": "f", "question": "q."} / {.. "g", .. 7}
jsonlB == File(<<"b", ".">> \o s_ext_jsonl, <<>>,
               << [flores_passage |-> StrV(<<"f">>), question |-> StrV(<<"q", ".">>)],
                  [flores_passage |-> StrV(<<"g">>), question |-> NumV(<<"7">>)] >>,
               <<>>, TRUE)
\* x.xml:   <r><s>s a</s><s> u</s></r>
xmlX == File(<<"x", ".">> \o s_ext_xml, <<>>, <<>>,
             << StrV(<<"s", " ", "a">>), StrV(<<" ", "u">>) >>, TRUE)
\* r.md:    an auxiliary file
mdR == File(<<"r", ".", "m", "d">>, << <<"n">> >>, <<>>, <<>>, TRUE)

Dir(name, files) == [name |-> name, files |-> files]

s_jojajovai_v2 == s_jojajovai \o <<"_", "v", "2">>
s_misc == <<"m", "i", "s", "c">>
s_xmlc == <<"x", "m", "l", "c">>

DirConfigs ==
    { Dir(s_jojajovai, <<csvA>>),
      Dir(s_jojajovai_v2, <<csvA>>),
      Dir(s_gua_spa, <<txtD>>),
      Dir(s_gua_spa, <<txtD, txtE>>),
      Dir(s_gua_spa, <<txtE, txtD>>),
      Dir(s_misc, <<txtD, csvA>>),
      Dir(s_misc, <<csvA, txtD>>),
      Dir(s_misc, <<mdR, txtD>>),
      Dir(s_misc, <<tsvT>>),
      Dir(s_americasnli, <<tsvT>>),
      Dir(s_belele, <<jsonlB>>),
      Dir(s_xmlc, <<xmlX>>) }

Roots ==
    { r \in UNION { [1..n -> DirConfigs] : n \in 1..MaxDirs } :
        \A i, j \in 1..Len(r) : i # j => r[i].name # r[j].name }

(***************************************************************************)
(* The state.                                                              *)
(***************************************************************************)
VARIABLES
    raw,          \* the raw root: the corpus directories in listing order
    processed,    \* the processed root: corpus name -> [report, jsonl], each
                  \* <<>> (no such file) or <<contents>>
    pc,           \* "idle", or where process_corpora / check_processed_corpora is
    overwrite,    \* the flag of the run
    todo,         \* the corpus directories (indices of raw) the run has not reached
    cur,          \* the corpus directory being processed (index of raw)
    files,        \* the files of cur (indices) not reached yet
    pending,      \* the arguments of the save_processing call in progress
    before,       \* processed as it was when the run began
    written,      \* the (raw directory, corpus name) pairs the run wrote output for
    extracted,    \* the raw directories a file of which the run extracted
    hist,         \* the finished runs: flag, outcome, the state they left
    faults,       \* writes that failed so far
    raw_records,  \* check_processed_corpora's raw_records
    vtodo,        \* the processed corpora the check has not reached
    okLines,      \* the corpora whose Ok line the check printed
    verdict,      \* how the last verification ended
    verifies      \* verifications started

vars == <<raw, processed, pc, overwrite, todo, cur, files, pending, before, written,
          extracted, hist, faults, raw_records, vtodo, okLines, verdict, verifies>>

runVars == <<overwrite, todo, cur, files, pending, before, written, extracted, hist>>
checkVars == <<raw_records, vtodo, okLines, verdict, verifies>>

NoPending == [data |-> <<>>, report_dict |-> get_report_dict, corpus_name |-> <<>>]
NoVerdict == [status |-> "none", kind |-> "", corpus |-> <<>>, what |-> "",
              expected |-> 0, actual |-> 0]

Init ==
    /\ raw \in Roots
    /\ processed = <<>>
    /\ pc = "idle"
    /\ overwrite = FALSE
    /\ todo = <<>>
    /\ cur = 0
    /\ files = <<>>
    /\ pending = NoPending
    /\ before = <<>>
    /\ written = {}
    /\ extracted = {}
    /\ hist = <<>>
    /\ faults = 0
    /\ raw_records = <<>>
    /\ vtodo = {}
    /\ okLines = <<>>
    /\ verdict = NoVerdict
    /\ verifies = 0

\* os.path.exists of processed/<c>/<c>_report.json and processed/<c>/<c>.jsonl
ReportExists(proc, c) == c \in DOMAIN proc /\ proc[c].report # <<>>
StoreExists(proc, c) == c \in DOMAIN proc /\ proc[c].jsonl # <<>>

\* the processed root with corpus directory c holding entry e
WithEntry(proc, c, e) ==
    [d \in DOMAIN proc \cup {c} |-> IF d = c THEN e ELSE proc[d]]

\* os.makedirs(processed/<c>, exist_ok=True)
MakeDirs(proc, c) ==
    IF c \in DOMAIN proc THEN proc
    ELSE WithEntry(proc, c, [report |-> <<>>, jsonl |-> <<>>])

RunRecord(outcome, err, dirname, proc) ==
    [overwrite |-> overwrite, outcome |-> outcome, err |-> err, dir |-> dirname,
     start |-> before, end |-> proc, written |-> written, extracted |-> extracted,
     faults |-> faults]

(***************************************************************************)
(* process_corpora.                                                        *)
(***************************************************************************)
StartRun(ow) ==
    /\ pc = "idle"
    /\ Len(hist) < MaxRuns
    /\ overwrite' = ow
    /\ todo' = [i \in 1..Len(raw) |-> i]
    /\ before' = processed
    /\ written' = {}
    /\ extracted' = {}
    /\ pc' = "dirs"
    /\ UNCHANGED <<raw, processed, cur, files, pending, hist, faults>>
    /\ UNCHANGED checkVars

\* the report exists and overwrite is unset: continue
SkipCorpus ==
    /\ pc = "dirs" /\ todo # <<>>
    /\ ReportExists(processed, raw[Head(todo)].name)
    /\ ~overwrite
    /\ todo' = Tail(todo)
    /\ UNCHANGED <<raw, processed, pc, overwrite, cur, files, pending, before, written,
                   extracted, hist, faults>>
    /\ UNCHANGED checkVars

\* the report exists and overwrite is set: os.remove both, then list the files;
\* os.remove of a record store that is not there raises
OverwriteCorpus ==
    /\ pc = "dirs" /\ todo # <<>>
    /\ ReportExists(processed, raw[Head(todo)].name)
    /\ overwrite
    /\ LET c == raw[Head(todo)].name
           noReport == WithEntry(processed, c, [processed[c] EXCEPT !.report = <<>>])
       IN  IF StoreExists(processed, c)
           THEN /\ processed' = WithEntry(processed, c, [report |-> <<>>, jsonl |-> <<>>])
                /\ cur' = Head(todo)
                /\ files' = [i \in 1..Len(raw[Head(todo)].files) |-> i]
                /\ todo' = Tail(todo)
                /\ pc' = "files"
                /\ UNCHANGED hist
           ELSE /\ processed' = noReport
                /\ hist' = Append(hist, RunRecord("raised", "FileNotFoundError", c, noReport))
                /\ pc' = "idle"
                /\ UNCHANGED <<cur, files, todo>>
    /\ UNCHANGED <<raw, overwrite, pending, before, written, extracted, faults>>
    /\ UNCHANGED checkVars

\* no report: list the files of the corpus directory
EnterCorpus ==
    /\ pc = "dirs" /\ todo # <<>>
    /\ ~ReportExists(processed, raw[Head(todo)].name)
    /\ cur' = Head(todo)
    /\ files' = [i \in 1..Len(raw[Head(todo)].files) |-> i]
    /\ todo' = Tail(todo)
    /\ pc' = "files"
    /\ UNCHANGED <<raw, processed, overwrite, pending, before, written, extracted, hist,
                   faults>>
    /\ UNCHANGED checkVars

\* a file whose extension no branch takes: the warning, nothing else
UnsupportedFile ==
    /\ pc = "files" /\ files # <<>>
    /\ Route(raw[cur].files[Head(files)].name) = "unsupported"
    /\ files' = Tail(files)
    /\ UNCHANGED <<raw, processed, pc, overwrite, todo, cur, pending, before, written,
                   extracted, hist, faults>>
    /\ UNCHANGED checkVars

\* the raw root with the lines of file f of directory d replaced
WithLines(root, d, f, lines) ==
    [root EXCEPT ![d].files[f].lines = lines]

\* a file of a supported extension: prepare_processing_* up to save_processing,
\* or up to the exception that ends the run
ProcessFile ==
    /\ pc = "files" /\ files # <<>>
    /\ Route(raw[cur].files[Head(files)].name) # "unsupported"
    /\ \E r \in {Dispatch(raw[cur].name, raw[cur].files[Head(files)])} :
           /\ raw' = WithLines(raw, cur, Head(files), r.lines)
           /\ IF r.err = ""
              THEN /\ pending' = [data |-> r.data, report_dict |-> r.report_dict,
                                  corpus_name |-> r.corpus_name]
                   /\ extracted' = extracted \cup {raw[cur].name}
                   /\ files' = Tail(files)
                   /\ pc' = "create_jsonl"
                   /\ UNCHANGED hist
              ELSE /\ hist' = Append(hist, RunRecord("raised", r.err, raw[cur].name, processed))
                   /\ pc' = "idle"
                   /\ UNCHANGED <<pending, extracted, files>>
    /\ UNCHANGED <<processed, overwrite, todo, cur, before, written, faults>>
    /\ UNCHANGED checkVars

\* open(file_path, 'a') and the writes of the lines: the record store of
\* corpus directory c with the lines appended
Appended(proc, c, lines) ==
    WithEntry(proc, c,
        [proc[c] EXCEPT !.jsonl = <<(IF @ = <<>> THEN <<>> ELSE @[1]) \o lines>>])

\* save_processing, first half: makedirs and create_jsonl in append mode
CreateJsonl ==
    /\ pc = "create_jsonl"
    /\ processed' = Appended(MakeDirs(processed, pending.corpus_name),
                             pending.corpus_name, pending.data)
    /\ written' = written \cup {<<raw[cur].name, pending.corpus_name>>}
    /\ pc' = "save_report"
    /\ UNCHANGED <<raw, overwrite, todo, cur, files, pending, before, extracted, hist, faults>>
    /\ UNCHANGED checkVars

\* create_jsonl when open or a write raises: the except clause prints and
\* returns.  k < 0: open raised, the file is as it was; k >= 0: the k-th write
\* was the last to succeed.
CreateJsonlFails ==
    /\ pc = "create_jsonl"
    /\ faults < MaxFaults
    /\ \E k \in (-1)..(Len(pending.data) - 1) :
         /\ processed' =
               IF k < 0 THEN MakeDirs(processed, pending.corpus_name)
               ELSE Appended(MakeDirs(processed, pending.corpus_name),
                             pending.corpus_name, SubSeq(pending.data, 1, k))
         /\ written' = IF k <= 0 THEN written
                       ELSE written \cup {<<raw[cur].name, pending.corpus_name>>}
    /\ faults' = faults + 1
    /\ pc' = "save_report"
    /\ UNCHANGED <<raw, overwrite, todo, cur, files, pending, before, extracted, hist>>
    /\ UNCHANGED checkVars

\* save_processing, second half: save_report and its save_to_json
SaveReport ==
    /\ pc = "save_report"
    /\ LET c == pending.corpus_name
       IN  processed' = WithEntry(processed, c,
               [processed[c] EXCEPT !.report = <<save_report(pending.report_dict, @)>>])
    /\ written' = written \cup {<<raw[cur].name, pending.corpus_name>>}
    /\ pending' = NoPending
    /\ pc' = "files"
    /\ UNCHANGED <<raw, overwrite, todo, cur, files, before, extracted, hist, faults>>
    /\ UNCHANGED checkVars

\* save_to_json when open raises: the except clause prints and returns
SaveReportFails ==
    /\ pc = "save_report"
    /\ faults < MaxFaults
    /\ faults' = faults + 1
    /\ pending' = NoPending
    /\ pc' = "files"
    /\ UNCHANGED <<raw, processed, overwrite, todo, cur, files, before, written, extracted,
                   hist>>
    /\ UNCHANGED checkVars

\* the files of the corpus directory are done
EndCorpus ==
    /\ pc = "files" /\ files = <<>>
    /\ pc' = "dirs"
    /\ UNCHANGED <<raw, processed, overwrite, todo, cur, files, pending, before, written,
                   extracted, hist, faults>>
    /\ UNCHANGED checkVars

\* process_corpora returns
EndRun ==
    /\ pc = "dirs" /\ todo = <<>>
    /\ hist' = Append(hist, RunRecord("completed", "", <<>>, processed))
    /\ pc' = "idle"
    /\ UNCHANGED <<raw, processed, overwrite, todo, cur, files, pending, before, written,
                   extracted, faults>>
    /\ UNCHANGED checkVars


(***************************************************************************)
(* verify_processed_corpora: compute_num_raw_records, then                 *)
(* check_processed_corpora, one corpus directory of the processed root at  *)
(* a time.                                                                 *)
(***************************************************************************)
\* the files of processed/<c>, as os.listdir names them
ProcessedFiles(proc, c) ==
    (IF proc[c].report # <<>> THEN {c \o s_sfx_report} ELSE {})
    \cup
    (IF proc[c].jsonl # <<>> THEN {c \o s_sfx_jsonl} ELSE {})

Raised(kind, c, what, expected, actual) ==
    [status |-> "raised", kind |-> kind, corpus |-> c, what |-> what,
     expected |-> expected, actual |-> actual]

\* the inner loop of check_processed_corpora over the files of one corpus, in
\* the order listing gives them: the exception raised, or NoVerdict
RECURSIVE CheckFiles(_, _, _, _)
CheckFiles(proc, records, c, listing) ==
    IF listing = <<>> THEN NoVerdict
    ELSE
      LET filename == Head(listing)
          raw_corpus_num_records == records[c]
          num_docs == proc[c].report[1].num_docs
          processed_corpus_num_records == Len(proc[c].jsonl[1])
      IN  IF c \notin DOMAIN records THEN Raised("KeyError", c, "", 0, 0)
          ELSE IF EndsWith(filename, s_ext_json) /\ num_docs # raw_corpus_num_records
            THEN Raised("AssertionError", c, "report", raw_corpus_num_records, num_docs)
          ELSE IF EndsWith(filename, s_ext_jsonl)
                  /\ processed_corpus_num_records # raw_corpus_num_records
            THEN Raised("AssertionError", c, "store", raw_corpus_num_records,
                        processed_corpus_num_records)
          ELSE CheckFiles(proc, records, c, Tail(listing))

\* the listings os.listdir may give of a set of files
Listings(fs) ==
    { l \in [1..Cardinality(fs) -> fs] : \A i, j \in 1..Cardinality(fs) : i # j => l[i] # l[j] }

\* verify_processed_corpora begins: the raw counts, or the exception of the
\* reader that failed
StartVerify ==
    /\ pc = "idle"
    /\ hist # <<>>
    /\ verifies < MaxVerifies
    /\ verifies' = verifies + 1
    /\ okLines' = <<>>
    /\ \E r \in {compute_num_raw_records(raw)} :
           IF r.err # ""
           THEN /\ verdict' = Raised(r.err, <<>>, "", 0, 0)
                /\ UNCHANGED <<raw_records, vtodo, pc>>
           ELSE /\ raw_records' = r.raw_records
                /\ vtodo' = DOMAIN processed
                /\ verdict' = [NoVerdict EXCEPT !.status = "running"]
                /\ pc' = "check"
    /\ UNCHANGED <<raw, processed, faults>>
    /\ UNCHANGED runVars

\* one iteration of the outer loop of check_processed_corpora
CheckCorpus ==
    /\ pc = "check"
    /\ \E c \in vtodo :
       \E listing \in Listings(ProcessedFiles(processed, c)) :
       \E v \in {CheckFiles(processed, raw_records, c, listing)} :
             IF v.status = "raised"
             THEN /\ verdict' = v
                  /\ pc' = "idle"
                  /\ UNCHANGED <<okLines, vtodo>>
             ELSE /\ okLines' = Append(okLines, c)
                  /\ vtodo' = vtodo \ {c}
                  /\ UNCHANGED <<verdict, pc>>
    /\ UNCHANGED <<raw, processed, faults, raw_records, verifies>>
    /\ UNCHANGED runVars

\* every corpus directory was checked: 'Everything is correct!'
EndVerify ==
    /\ pc = "check"
    /\ vtodo = {}
    /\ verdict' = [NoVerdict EXCEPT !.status = "passed"]
    /\ pc' = "idle"
    /\ UNCHANGED <<raw, processed, faults, raw_records, vtodo, okLines, verifies>>
    /\ UNCHANGED runVars

Next ==
    \/ \E ow \in BOOLEAN : StartRun(ow)
    \/ SkipCorpus
    \/ OverwriteCorpus
    \/ EnterCorpus
    \/ UnsupportedFile
    \/ ProcessFile
    \/ CreateJsonl
    \/ CreateJsonlFails
    \/ SaveReport
    \/ SaveReportFails
    \/ EndCorpus
    \/ EndRun
    \/ StartVerify
    \/ CheckCorpus
    \/ EndVerify

Spec == Init /\ [][Next]_vars

(***************************************************************************)
(* The extractors on their own.  A second specification starts             *)
(* process_corpora where the first run has listed the files of the only    *)
(* corpus directory (pc = "files", the state EnterCorpus leaves), the      *)
(* directory holding one file drawn from the samples below, and takes the  *)
(* ProcessFile step: the prepare_processing_* function of the file, up to  *)
(* save_processing or to the exception it raises.                          *)
(***************************************************************************)
MaxLines == 2

\* the sequences of at most n members of S
SeqsUpTo(S, n) == UNION { [1..k -> S] : k \in 0..n }

\* line-JSON files; the value of a key is a string, the empty string, a
\* number, or the key is missing
JsonlSamples ==
    LET JsonValues ==
            { StrV(<<"f">>), StrV(<<"q", ".">>), StrV(<<>>), NumV(<<"7">>), MissingV }
    IN  { File(jsonlB.name, <<>>, objs, <<>>, TRUE) :
            objs \in SeqsUpTo([flores_passage : JsonValues, question : JsonValues],
                              MaxLines) }

\* markup files; the text of an <s> element is text, blank text or none
\* (<s/>); and a document that does not parse
XmlSamples ==
    LET XmlTexts ==
            { StrV(<<"x", " ", "a">>), StrV(<<" ", "u">>), StrV(<<" ">>), NoneV }
    IN  { File(xmlX.name, <<>>, <<>>, elems, TRUE) :
            elems \in SeqsUpTo(XmlTexts, MaxLines) }
        \cup { File(xmlX.name, <<>>, <<>>, <<>>, FALSE) }

\* text files; a line is empty, blank, plain, prefixed without the separator,
\* prefixed with it, indented, or prefixed with an empty field
TxtSamples ==
    LET TxtLines ==
            { <<>>, <<" ">>, <<"h", "i">>, <<"#", "s", "k", "i", "p">>, <<"#", "d", "1",
            ":", " ", "c", "h", "e">>, <<" ", "#", "d", "2", ":", " ", "k", "o">>,
            <<"#", "a", ":", " ", ":", " ", "b">> }
    IN  { File(txtD.name, lines, <<>>, <<>>, TRUE) : lines \in SeqsUpTo(TxtLines, MaxLines) }

\* csv files; under the header gn,source a row has two strings, a number and
\* a string, or lacks its second field; under the header gn it has one cell
CsvSamples ==
    LET CsvRowLines ==
            { <<"c", "h", "e", ",", "w">>, <<"h", "a", " ", "e", ",", "w">>, <<"4", "2",
            ",", "w">>, <<"c", "h", "e">> }
        CsvCellLines ==
            { <<"c", "h", "e">>, <<"h", "a", " ", "e">>, <<"4", "2">> }
    IN  { File(csvA.name, <<s_gn \o <<",">> \o s_source>> \o rows, <<>>, <<>>, TRUE) :
            rows \in SeqsUpTo(CsvRowLines, MaxLines) }
        \cup { File(csvA.name, <<s_gn>> \o rows, <<>>, <<>>, TRUE) :
                 rows \in SeqsUpTo(CsvCellLines, MaxLines) }

\* tsv files under the header premise<TAB>hypothesis; a row is plain, quoted
\* with a run of tabs, of another premise, of a numeric hypothesis, of a
\* numeric premise, or of a premise with a trailing blank
TsvSamples ==
    LET TsvRowLines ==
            { <<"p", TAB, "h">>, <<QUOTE, "p", QUOTE, TAB, TAB, "h">>, <<"q", TAB, "i",
            ",">>, <<"p", TAB, "7">>, <<"7", TAB, "h">>, <<"p", " ", TAB, "h">> }
    IN  { File(tsvT.name, <<s_premise \o <<TAB>> \o s_hypothesis>> \o rows, <<>>, <<>>,
                 TRUE) :
            rows \in SeqsUpTo(TsvRowLines, MaxLines) }

\* the raw roots of the second specification: one corpus directory, one file.
\* NamedOtherwise has sample files under other names: without the dot before
\* the extension, with the other text extension, with extensions no branch
\* takes.
ExtractRoots ==
    LET NamedOtherwise ==
            { Dir(s_americasnli, { [tsvT EXCEPT !.name = <<"t">> \o s_ext_tsv],
                                   [tsvT EXCEPT !.name = mdR.name] }),
              Dir(s_xmlc, { [xmlX EXCEPT !.name = <<"x">> \o s_ext_xml] }),
              Dir(s_belele, { [jsonlB EXCEPT !.name = <<"b">> \o s_ext_jsonl],
                              [jsonlB EXCEPT !.name = <<"b", ".">> \o s_ext_json] }),
              Dir(s_misc, { [txtD EXCEPT !.name = <<"d">> \o s_ext_gn],
                            [txtD EXCEPT !.name = <<"d", "t", "x", "t">>] }) }
    IN  { <<Dir(s_belele, <<f>>)>> : f \in JsonlSamples }
        \cup { <<Dir(s_xmlc, <<f>>)>> : f \in XmlSamples }
        \cup { <<Dir(d, <<f>>)>> : d \in {s_gua_spa, s_misc}, f \in TxtSamples }
        \cup { <<Dir(s_jojajovai, <<f>>)>> : f \in CsvSamples }
        \cup { <<Dir(s_americasnli, <<f>>)>> : f \in TsvSamples }
        \cup UNION { { <<Dir(d.name, <<f>>)>> : f \in d.files } : d \in NamedOtherwise }

ExtractInit ==
    /\ raw \in ExtractRoots
    /\ processed = <<>>
    /\ pc = "files"
    /\ overwrite = FALSE
    /\ todo = <<>>
    /\ cur = 1
    /\ files = <<1>>
    /\ pending = NoPending
    /\ before = <<>>
    /\ written = {}
    /\ extracted = {}
    /\ hist = <<>>
    /\ faults = 0
    /\ raw_records = <<>>
    /\ vtodo = {}
    /\ okLines = <<>>
    /\ verdict = NoVerdict
    /\ verifies = 0

ExtractNext == ProcessFile \/ UnsupportedFile

ExtractSpec == ExtractInit /\ [][ExtractNext]_vars

(***************************************************************************)
(* The properties.                                                         *)
(***************************************************************************)
SumFields == {"num_docs", "num_words_split", "num_words_punct_spacy",
              "num_words_no_punct_spacy", "num_chars", "sum_lang_score"}

AvgOf == [avg_words_split |-> "num_words_split",
          avg_words_punct_spacy |-> "num_words_punct_spacy",
          avg_words_no_punct_spacy |-> "num_words_no_punct_spacy",
          avg_chars |-> "num_chars",
          avg_language_score |-> "sum_lang_score"]

\* the number of lines of a record store (<<>>: no such file)
StoreLines(jsonl) == IF jsonl = <<>> THEN 0 ELSE Len(jsonl[1])

\* the six sums of a persisted report (<<>>: no such file)
SumsOf(report) == IF report = <<>> THEN <<>> ELSE <<[k \in SumFields |-> report[1][k]]>>

\* the write failures that happened during run i
FaultsDuring(i) == hist[i].faults - (IF i = 1 THEN 0 ELSE hist[i - 1].faults)

\* C1: after every completed run of process_corpora, every corpus that has a
\* persisted report has report.num_docs equal to the number of lines of its
\* record store.
C1_ReportCountsStoreLines ==
    \A i \in 1..Len(hist) :
        hist[i].outcome = "completed" =>
            \A c \in DOMAIN hist[i].end :
                hist[i].end[c].report # <<>> =>
                    hist[i].end[c].report[1].num_docs = StoreLines(hist[i].end[c].jsonl)

\* C2: a run with overwrite unset skips every corpus directory whose report
\* exists: none of its files is extracted and its report and record store are
\* after the run what they were before it (stated for the runs in which no
\* write failed).
C2_SkippedCorpusUntouched ==
    \A i \in 1..Len(hist) :
        (~hist[i].overwrite /\ hist[i].faults = 0) =>
            \A d \in 1..Len(raw) :
                ReportExists(hist[i].start, raw[d].name) =>
                    /\ raw[d].name \notin hist[i].extracted
                    /\ hist[i].end[raw[d].name] = hist[i].start[raw[d].name]

\* C3: two completed runs in a row with overwrite set leave, for every
\* corpus, the same six report sums and the same number of record-store lines
\* after the second as after the first (stated for the runs in which no write
\* failed).
C3_OverwriteTwiceSameSums ==
    \A i \in 1..(Len(hist) - 1) :
        (/\ hist[i].overwrite /\ hist[i + 1].overwrite
         /\ hist[i].outcome = "completed" /\ hist[i + 1].outcome = "completed"
         /\ hist[i + 1].faults = 0) =>
            /\ DOMAIN hist[i + 1].end = DOMAIN hist[i].end
            /\ \A c \in DOMAIN hist[i].end :
                /\ SumsOf(hist[i + 1].end[c].report) = SumsOf(hist[i].end[c].report)
                /\ StoreLines(hist[i + 1].end[c].jsonl) = StoreLines(hist[i].end[c].jsonl)

\* C4: whenever save_report persists a report, each of its six sums is the sum
\* of the existing report (none: zero) plus that of the fresh counters, and
\* each average is the merged sum divided by the merged num_docs (to two
\* decimal places), zero when the merged num_docs is zero.
C4_SaveReportMergesAdditively ==
    [][(pc = "save_report" /\ pc' = "files" /\ faults' = faults) =>
          LET c == pending.corpus_name
              E == processed[c].report
              F == pending.report_dict
              M == processed'[c].report
          IN  /\ M # <<>>
              /\ \A k \in SumFields :
                    M[1][k] = F[k] + (IF E = <<>> THEN 0 ELSE E[1][k])
              /\ \A a \in DOMAIN AvgOf :
                    IF M[1].num_docs = 0 THEN M[1][a] = 0
                    ELSE /\ M[1][a] * M[1].num_docs <= M[1][AvgOf[a]] * 100
                         /\ M[1][AvgOf[a]] * 100 < (M[1][a] + 1) * M[1].num_docs]_vars

\* a report merged from an existing report of two documents and fresh
\* counters of two documents: four documents of six words, the average 1.5
C4_MergedReportReached ==
    \E c \in DOMAIN processed :
        /\ processed[c].report # <<>>
        /\ processed[c].report[1].num_docs = 4
        /\ processed[c].report[1].num_words_split = 6
        /\ processed[c].report[1].avg_words_split = 150

\* C5: check_processed_corpora raises nothing but an assertion failure that
\* names the corpus, the expected and the actual count, and prints the Ok line
\* of a corpus only when its report and its record store both carry the
\* expected count (stated for the states no write failure led to).
C5_ChecksAssertBothCounts ==
    faults = 0 =>
        /\ (verdict.status = "raised" /\ verdict.corpus # <<>>) =>
              /\ verdict.kind = "AssertionError"
              /\ verdict.expected = raw_records[verdict.corpus]
              /\ verdict.actual # verdict.expected
        /\ pc = "check" =>
              \A i \in 1..Len(okLines) :
                  /\ okLines[i] \in DOMAIN raw_records
                  /\ ReportExists(processed, okLines[i])
                  /\ processed[okLines[i]].report[1].num_docs = raw_records[okLines[i]]
                  /\ StoreExists(processed, okLines[i])
                  /\ Len(processed[okLines[i]].jsonl[1]) = raw_records[okLines[i]]

\* the corpus identities the csv and the tsv branch are configured for
ConfiguredTabular(branch) ==
    IF branch = "csv" THEN {s_jojajovai, s_culturax}
    ELSE {s_americasnlp2022, s_americasnli, s_bible, s_ancora, s_americasnlp2024, s_tatoeba}

\* C6: for a .csv or tsv file of a corpus directory that is none of the
\* configured tabular corpora the router raises the unknown-corpus exception:
\* the run ends there and nothing of the file is extracted.
C6_UnknownTabularRaises ==
    [][(/\ pc = "files" /\ files # <<>>
        /\ Route(raw[cur].files[Head(files)].name) \in {"csv", "tsv"}
        /\ raw[cur].name \notin ConfiguredTabular(Route(raw[cur].files[Head(files)].name)))
       => (/\ pc' = "idle"
           /\ Len(hist') = Len(hist) + 1
           /\ hist'[Len(hist')].err = "UnknownCorpus"
           /\ extracted' = extracted
           /\ pending' = pending
           /\ raw' = raw)]_vars

\* C7: a run that ended with the unknown-corpus exception wrote no report and
\* no record-store line for the corpus directory it ended in.
C7_FatalLeavesNoPartialOutput ==
    \A i \in 1..Len(hist) :
        hist[i].err = "UnknownCorpus" =>
            \A w \in hist[i].written : w[1] # hist[i].dir

\* C8 as stated: no step changes a raw file.
C8_NoExtractorMutatesSource == [][raw' = raw]_vars

\* C8, amended: a step changes no raw file, except that the step which
\* processes a tsv file of a configured corpus leaves that file with, in every
\* line, the double quotes removed, the line stripped and each run of tabs
\* collapsed to one; every other file, and the listing, stay as they were.
C8_OnlyTsvIsSanitized ==
    [][\A d \in 1..Len(raw) :
          /\ raw'[d].name = raw[d].name
          /\ Len(raw'[d].files) = Len(raw[d].files)
          /\ \A f \in 1..Len(raw[d].files) :
                IF /\ pc = "files" /\ pc' # "files" /\ files # <<>>
                   /\ d = cur /\ f = Head(files)
                   /\ Route(raw[d].files[f].name) = "tsv"
                   /\ raw[d].name \in ConfiguredTabular("tsv")
                THEN raw'[d].files[f] =
                         [raw[d].files[f] EXCEPT !.lines =
                             [i \in 1..Len(@) |->
                                 CollapseTabs(Strip(RemoveChar(@[i], QUOTE)))]]
                ELSE raw'[d].files[f] = raw[d].files[f]]_vars

\* the tsv file of americasnli was processed and is no longer what it was
C8_SanitizedFileReached ==
    \E d \in 1..Len(raw) :
        /\ raw[d].name = s_americasnli
        /\ s_americasnli \in extracted
        /\ raw[d].files[1].name = tsvT.name
        /\ raw[d].files[1].lines # tsvT.lines

\* C9: no run in which a write of the record store or of the report failed
\* completes normally.
C9_WriteFailuresPropagate ==
    \A i \in 1..Len(hist) :
        hist[i].outcome = "completed" => FaultsDuring(i) = 0

\* C10: every output written while the files of raw corpus directory D are
\* processed is written to the report and the record store of processed/D,
\* the paths the skip check inspects.
C10_OutputGoesToOwnDirectory ==
    \A w \in written : w[2] = w[1]

(***************************************************************************)
(* The properties of the extractors, under ExtractSpec.                    *)
(***************************************************************************)
\* the corpus directory and the file of the ProcessFile step, and whether the
\* step was taken
TheDir == raw[1].name
TheFile == raw[1].files[1]
Extracted == pc = "create_jsonl"
RaisedIn == pc = "idle" /\ hist # <<>>

\* the texts of the records handed to save_processing
TextsOf(data) == [i \in 1..Len(data) |-> data[i].text]

\* C11: for a line-JSON file of belele whose lines all have a string for
\* flores_passage and for question, process_jsonl_corpus emits two records per
\* line, the passage then the question, in line order, and the count
\* compute_num_raw_records adds for the file is twice its number of lines: the
\* number of records emitted.
C11_TwoRecordsPerLine ==
    ( /\ pc # "files"
      /\ TheDir = s_belele
      /\ TheFile.ok
      /\ \A i \in 1..Len(TheFile.objs) :
            IsStr(TheFile.objs[i].flores_passage) /\ IsStr(TheFile.objs[i].question) )
    => /\ Extracted
       /\ Len(pending.data) = 2 * Len(TheFile.objs)
       /\ \A i \in 1..Len(TheFile.objs) :
             /\ pending.data[2 * i - 1].text = TheFile.objs[i].flores_passage.val
             /\ pending.data[2 * i].text = TheFile.objs[i].question.val
       /\ pending.report_dict.num_docs = 2 * Len(TheFile.objs)
       /\ CountFile(TheDir, TheFile) = [err |-> "", n |-> Len(pending.data)]

\* a two-line file of belele, all four values strings, was extracted
C11_TwoLinesExtracted ==
    /\ Extracted
    /\ TheDir = s_belele
    /\ Len(TheFile.objs) = 2
    /\ \A i \in 1..2 :
          IsStr(TheFile.objs[i].flores_passage) /\ IsStr(TheFile.objs[i].question)
    /\ Len(pending.data) = 4

\* the values of the two keys of every line, in order, that are strings
RECURSIVE StringFields(_)
StringFields(objs) ==
    IF objs = <<>> THEN <<>>
    ELSE (IF IsStr(Head(objs).flores_passage) THEN <<Head(objs).flores_passage.val>>
          ELSE <<>>)
         \o (IF IsStr(Head(objs).question) THEN <<Head(objs).question.val>> ELSE <<>>)
         \o StringFields(Tail(objs))

\* C12: the line-JSON extractor emits one record per field of (flores_passage,
\* question) whose value is a string and skips a field that is no string or is
\* missing, without raising and without dropping the other field of the line.
C12_MissingFieldSkipped ==
    (pc # "files" /\ TheDir = s_belele /\ TheFile.ok)
    => /\ Extracted
       /\ TextsOf(pending.data) = StringFields(TheFile.objs)

\* the frame read_csv_corpus gives for the csv file, and its rows whose gn
\* cell is a string
TheFrame == read_csv_corpus(TheFile, ",", <<>>)
HasStringGn(row) == IsStr(row[s_gn])
AcceptedRows == SelectSeq(TheFrame.rows, HasStringGn)

NotEmpty(line) == line # <<>>
HasPrefix(line) == StartsWith(line, s_prefix_hash)
StrippedLines ==
    SelectSeq([i \in 1..Len(TheFile.lines) |-> Strip(TheFile.lines[i])], NotEmpty)
PrefixedLines == SelectSeq(StrippedLines, HasPrefix)

\* C14: given a required prefix (gua_spa: prefix "#", separator ": ", field
\* 1), the line-oriented extractor emits one record for each line whose
\* stripped form is not empty and starts with the prefix, in input order, and
\* nothing for any other line; the record's text is the indicated field of the
\* split line.
C14_OneRecordPerPrefixedLine ==
    (pc # "files" /\ TheDir = s_gua_spa)
    => /\ Extracted
       /\ Len(pending.data) = Len(PrefixedLines)
       /\ \A i \in 1..Len(PrefixedLines) :
             Len(Split(PrefixedLines[i], s_sep_colon)) >= 2
             => pending.data[i].text = Split(PrefixedLines[i], s_sep_colon)[2]

\* the text content of the <s> elements, stripped, without the elements that
\* have no text or only blanks
ElementTexts ==
    SelectSeq([i \in 1..Len(TheFile.elems) |->
                  IF IsStr(TheFile.elems[i]) THEN Strip(TheFile.elems[i].val) ELSE <<>>],
              NotEmpty)

\* C15: the markup extractor yields the text content of every <s> element in
\* document order; a document with no <s> element yields no record, and a
\* report contribution of 0, rather than an error.
C15_EveryElementInOrder ==
    (pc # "files" /\ TheDir = s_xmlc /\ TheFile.ok)
    => /\ Extracted
       /\ TextsOf(pending.data) = ElementTexts
       /\ pending.report_dict.num_docs = Len(ElementTexts)

C17_TextNeverEmpty ==
    Extracted => \A i \in 1..Len(pending.data) : pending.data[i].text # <<>>

\* C18: every record has no more tokens counted without punctuation than with
\* it, and num_chars is the length of the text stored in the record.
C18_CountsOfARecord ==
    Extracted =>
        \A i \in 1..Len(pending.data) :
            /\ pending.data[i].num_words_no_punct_spacy
                  <= pending.data[i].num_words_punct_spacy
            /\ pending.data[i].num_chars = Len(pending.data[i].text)

\* a record whose text ends in a punctuation mark was extracted: two tokens,
\* one of them punctuation
C18_PunctuatedRecord ==
    /\ Extracted
    /\ \E i \in 1..Len(pending.data) :
          /\ pending.data[i].text = <<"q", ".">>
          /\ pending.data[i].num_words_punct_spacy = 2
          /\ pending.data[i].num_words_no_punct_spacy = 1
          /\ pending.data[i].num_chars = 2

\* C19: for every line-oriented file, with or without a required prefix, the
\* count compute_num_raw_records adds for the file is the number of records
\* the line-oriented extractor emits for it.
C19_CounterFiltersAsExtractor ==
    (Extracted /\ Route(TheFile.name) = "txt")
    => CountFile(TheDir, TheFile) = [err |-> "", n |-> Len(pending.data)]

\* the frame read_csv_corpus gives for the tsv file as the extractor left it,
\* and the distinct values of its premise column in order of appearance
TheTsvFrame == read_csv_corpus(TheFile, TAB, <<>>)
DistinctPremises ==
    Unique([i \in 1..Len(TheTsvFrame.rows) |-> TheTsvFrame.rows[i][s_premise]], {})

\* C20: for a tsv file of americasnli the extractor emits one record per row
\* and then one record per distinct value of the premise column, so the number
\* of records is rows + distinct premise values, the count
\* compute_num_raw_records adds for the file.
C20_FanOutPerDistinctPremise ==
    (pc # "files" /\ TheDir = s_americasnli /\ TheTsvFrame.err = "")
    => /\ Extracted
       /\ Len(pending.data) = Len(TheTsvFrame.rows) + Len(DistinctPremises)
       /\ \A j \in 1..Len(DistinctPremises) :
             pending.data[Len(TheTsvFrame.rows) + j].text = DistinctPremises[j].val
       /\ CountFile(TheDir, TheFile) = [err |-> "", n |-> Len(pending.data)]

(***************************************************************************)
(* The properties of the reconciliation, under Spec.                       *)
(***************************************************************************)
\* the raw corpus directory d has a report and a record store that both carry
\* the count compute_num_raw_records gave for it
Reconciled(d) ==
    /\ ReportExists(processed, raw[d].name)
    /\ processed[raw[d].name].report[1].num_docs = raw_records[raw[d].name]
    /\ StoreExists(processed, raw[d].name)
    /\ Len(processed[raw[d].name].jsonl[1]) = raw_records[raw[d].name]

\* C21: when verify_processed_corpora returns without raising, every corpus
\* directory of the raw root whose expected count is greater than 0 has a
\* report with num_docs equal to that count and a record store of that many
\* lines.
C21_ReconciliationCoversRawCorpora ==
    [][(pc = "check" /\ pc' = "idle" /\ verdict'.status = "passed")
       => \A d \in 1..Len(raw) : raw_records[raw[d].name] > 0 => Reconciled(d)]_vars

\* C22: process_corpora and compute_num_raw_records classify every file name
\* alike: the file a step of process_corpora takes is routed to the csv, text,
\* tsv, markup or line-JSON extractor exactly when the counter counts it under
\* that format, and is passed over as unsupported exactly when the counter
\* does not count it.
C22_RouterAndCounterAgree ==
    [][(pc = "files" /\ files # <<>> /\ (pc' # pc \/ files' # files))
       => Route(raw[cur].files[Head(files)].name)
          = CountedAs(raw[cur].files[Head(files)].name)]_vars
====
